---- MODULE Spec2Model ----
(***************************************************************************)
(* Anchor-based track-changes engine of app/api/analyze/route.ts.          *)
(*                                                                         *)
(* The markup tree of word/document.xml is an arena: a sequence of node    *)
(* records addressed by their index (the node's identity).  A node keeps   *)
(* its tag, its parent (0 = parentNode null), its ordered element          *)
(* children, its text content (w:t only), the value of its w:rPr child     *)
(* (w:r only, "none" = no w:rPr) and its w:id attribute (w:del / w:ins     *)
(* only, 0 = no attribute).  Texts are sequences of one-character strings. *)
(***************************************************************************)
EXTENDS Integers, Sequences, FiniteSets, TLC

\* ------------------------------------------------------------------ bounds
MaxOps == 2          \* longest list of changes the AI step returns
MaxRuns == 3         \* most runs in a generated one-paragraph document
MaxSettings == 2     \* most children of w:settings in a generated settings part
LongRuns == 22       \* most single-character runs in a long document
WindowCap == 20      \* route.ts:411, Math.min(i + 20, textNodes.length)

Whitespace == {" ", "\t"}

\* ------------------------------------------------------------ string model
\* String.prototype.includes on character sequences
includes(s, sub) ==
  \E i \in 0..(Len(s) - Len(sub)) : SubSeq(s, i + 1, i + Len(sub)) = sub

\* String.prototype.indexOf: smallest 0-based offset, -1 when absent
indexOf(s, sub) ==
  IF includes(s, sub)
  THEN CHOOSE i \in 0..(Len(s) - Len(sub)) :
         /\ SubSeq(s, i + 1, i + Len(sub)) = sub
         /\ \A k \in 0..(i - 1) : SubSeq(s, k + 1, k + Len(sub)) # sub
  ELSE -1

\* String.prototype.substring(from) and substring(0, to), 0-based
substringFrom(s, from) == SubSeq(s, from + 1, Len(s))
substringTo(s, to) == SubSeq(s, 1, to)

RECURSIVE trimStart(_)
trimStart(s) ==
  IF s # <<>> /\ Head(s) \in Whitespace THEN trimStart(Tail(s)) ELSE s

RECURSIVE trimEnd(_)
trimEnd(s) ==
  IF s # <<>> /\ s[Len(s)] \in Whitespace
  THEN trimEnd(SubSeq(s, 1, Len(s) - 1)) ELSE s

\* String.prototype.trim
trim(s) == trimEnd(trimStart(s))

\* s.replace(/\s+/g, ' ')
RECURSIVE collapse(_)
collapse(s) ==
  IF s = <<>> THEN <<>>
  ELSE IF Head(s) \in Whitespace
       THEN <<" ">> \o collapse(trimStart(Tail(s)))
       ELSE <<Head(s)>> \o collapse(Tail(s))

\* s.replace(/\s+/g, ' ').trim()
normalize(s) == trim(collapse(s))

\* textNodes.map(n => n.text).join('')
RECURSIVE joinTexts(_)
joinTexts(ns) ==
  IF ns = <<>> THEN <<>> ELSE Head(ns).text \o joinTexts(Tail(ns))

\* -------------------------------------------------------------- DOM model
Node(tag, parent, kids, text, rPr, wid) ==
  [tag |-> tag, parent |-> parent, kids |-> kids, text |-> text,
   rPr |-> rPr, wid |-> wid]

\* position of node n in the child list ks (0 when absent)
childIndex(ks, n) ==
  IF \E i \in 1..Len(ks) : ks[i] = n
  THEN CHOOSE i \in 1..Len(ks) : ks[i] = n
  ELSE 0

\* Node.insertBefore(new, ref) on a parent that owns ref
insertBefore(tr, par, new, ref) ==
  LET ks == tr[par].kids
      i == childIndex(ks, ref)
  IN [tr EXCEPT ![par].kids = SubSeq(ks, 1, i - 1) \o <<new>> \o SubSeq(ks, i, Len(ks)),
                ![new].parent = par]

\* Node.removeChild(child)
removeChild(tr, par, child) ==
  [tr EXCEPT ![par].kids = SelectSeq(tr[par].kids, LAMBDA k : k # child),
             ![child].parent = 0]

\* Node.appendChild(new)
appendChild(tr, par, new) ==
  [tr EXCEPT ![par].kids = Append(tr[par].kids, new), ![new].parent = par]

\* getAllTextNodes: pre-order walk collecting the non-blank w:t elements
RECURSIVE walkNodes(_, _), walkChildren(_, _)
walkNodes(tr, n) ==
  (IF tr[n].tag = "t" /\ trim(tr[n].text) # <<>>
   THEN << [element |-> n, text |-> tr[n].text] >>
   ELSE <<>>) \o walkChildren(tr, tr[n].kids)
walkChildren(tr, ks) ==
  IF ks = <<>> THEN <<>>
  ELSE walkNodes(tr, Head(ks)) \o walkChildren(tr, Tail(ks))

\* the walk without the test for blank text
RECURSIVE walkAll(_, _), walkAllChildren(_, _)
walkAll(tr, n) ==
  (IF tr[n].tag = "t" THEN << [element |-> n, text |-> tr[n].text] >> ELSE <<>>)
  \o walkAllChildren(tr, tr[n].kids)
walkAllChildren(tr, ks) ==
  IF ks = <<>> THEN <<>>
  ELSE walkAll(tr, Head(ks)) \o walkAllChildren(tr, Tail(ks))

getAllTextNodes_keepsBlank(tr) == walkAll(tr, 1)

getAllTextNodes(tr) == walkNodes(tr, 1)

\* findParentRun / findParentParagraph: nearest inclusive ancestor with the tag
RECURSIVE findAncestor(_, _, _)
findAncestor(tr, n, tag) ==
  IF n = 0 THEN 0
  ELSE IF tr[n].tag = tag THEN n
  ELSE findAncestor(tr, tr[n].parent, tag)

findParentRun(tr, element) == findAncestor(tr, element, "r")
\* findParentParagraph falling back on the first paragraph of the document
\* when the walk finds none
findParentParagraph_firstParagraph(tr, element) ==
  IF findAncestor(tr, element, "p") # 0 THEN findAncestor(tr, element, "p")
  ELSE IF element # 0 /\ \E n \in DOMAIN tr : tr[n].tag = "p"
  THEN CHOOSE n \in DOMAIN tr : tr[n].tag = "p" /\ \A m \in DOMAIN tr : tr[m].tag = "p" => n <= m
  ELSE 0

findParentParagraph(tr, element) == findAncestor(tr, element, "p")

\* cloneRun without the copy of w:rPr
cloneRun_unformatted(tr, originalRun, newText) ==
  LET run == Len(tr) + 1
  IN tr \o << Node("r", 0, <<run + 1>>, <<>>, "none", 0),
              Node("t", run, <<>>, newText, "none", 0) >>

\* cloneRun: a detached w:r carrying a copy of the original's w:rPr and one
\* w:t with the new text; the new run is node Len(tr) + 1
cloneRun(tr, originalRun, newText) ==
  LET run == Len(tr) + 1
  IN tr \o << Node("r", 0, <<run + 1>>, <<>>, tr[originalRun].rPr, 0),
              Node("t", run, <<>>, newText, "none", 0) >>

\* createDeletionElement: a detached w:del (node Len(tr) + 1) wrapping a clone
createDeletionElement(tr, id, text, originalRun) ==
  LET del == Len(tr) + 1
      t1 == Append(tr, Node("del", 0, <<>>, <<>>, "none", id))
  IN appendChild(cloneRun(t1, originalRun, text), del, del + 1)

\* createInsertionElement: a detached w:ins (node Len(tr) + 1) wrapping a clone
createInsertionElement(tr, id, text, originalRun) ==
  LET ins == Len(tr) + 1
      t1 == Append(tr, Node("ins", 0, <<>>, <<>>, "none", id))
  IN appendChild(cloneRun(t1, originalRun, text), ins, ins + 1)

\* ------------------------------------------------------------ the mutator
\* What one call of an apply function produced: the tree, the boolean it
\* returned, whether a DOMException escaped it, the branch it took and the
\* location it computed (positions in the list it was given; 0 = unset).
Outcome(tr, applied, threw, how, loc) ==
  [tree |-> tr, applied |-> applied, threw |-> threw, how |-> how, loc |-> loc]

NoLoc == [startNodeIdx |-> 0, startOffset |-> -1, endNodeIdx |-> 0, endOffset |-> -1]

\* replaceRun with the two markers inserted in the wrong order
replaceRun_swapped(tr, paragraph, parentRun, delElement, insElement) ==
  removeChild(insertBefore(insertBefore(tr, paragraph, insElement, parentRun),
                           paragraph, delElement, parentRun),
              paragraph, parentRun)

\* the exact-match branch of applySingleNodeChange (route.ts:463-467)
replaceRun(tr, paragraph, parentRun, delElement, insElement) ==
  removeChild(insertBefore(insertBefore(tr, paragraph, delElement, parentRun),
                           paragraph, insElement, parentRun),
              paragraph, parentRun)

\* splitRun whose trailing remainder starts at the anchor instead of after it
splitRun_keepsAnchor(tr, paragraph, parentRun, element, delElement, insElement, text, index, len) ==
  LET beforeText == substringTo(text, index)
      afterText == substringFrom(text, index)
      beforeRun == Len(tr) + 1
      t3 == IF beforeText # <<>>
            THEN insertBefore(cloneRun(tr, parentRun, beforeText), paragraph, beforeRun, parentRun)
            ELSE tr
      t4 == insertBefore(t3, paragraph, delElement, parentRun)
      t5 == insertBefore(t4, paragraph, insElement, parentRun)
  IN IF afterText # <<>>
     THEN [t5 EXCEPT ![element].text = afterText]
     ELSE removeChild(t5, paragraph, parentRun)

\* the partial-match branch of applySingleNodeChange (route.ts:468-487)
splitRun(tr, paragraph, parentRun, element, delElement, insElement, text, index, len) ==
  LET beforeText == substringTo(text, index)
      afterText == substringFrom(text, index + len)
      beforeRun == Len(tr) + 1
      t3 == IF beforeText # <<>>
            THEN insertBefore(cloneRun(tr, parentRun, beforeText), paragraph, beforeRun, parentRun)
            ELSE tr
      t4 == insertBefore(t3, paragraph, delElement, parentRun)
      t5 == insertBefore(t4, paragraph, insElement, parentRun)
  IN IF afterText # <<>>
     THEN [t5 EXCEPT ![element].text = afterText]
     ELSE removeChild(t5, paragraph, parentRun)

\* applySingleNodeChange (route.ts:425-490).  insertBefore raises
\* NotFoundError when the reference run is not a child of the paragraph.
applySingleNodeChange(tr, element, text, suggestion, changeId) ==
  LET parentRun == findParentRun(tr, element)
      paragraph == findParentParagraph(tr, parentRun)
      delElement == Len(tr) + 1
      t1 == createDeletionElement(tr, changeId, suggestion.original, parentRun)
      insElement == Len(t1) + 1
      t2 == createInsertionElement(t1, changeId + 1, suggestion.suggestion, parentRun)
      index == indexOf(text, suggestion.original)
      loc == [startNodeIdx |-> 1, startOffset |-> index,
              endNodeIdx |-> 1, endOffset |-> index + Len(suggestion.original)]
  IN IF parentRun = 0 THEN Outcome(tr, FALSE, FALSE, "noRun", NoLoc)
     ELSE IF paragraph = 0 THEN Outcome(tr, FALSE, FALSE, "noParagraph", NoLoc)
     ELSE IF index = 0 /\ Len(text) = Len(suggestion.original)
     THEN IF tr[parentRun].parent # paragraph
          THEN Outcome(t2, FALSE, TRUE, "threw", loc)
          ELSE Outcome(replaceRun(t2, paragraph, parentRun, delElement, insElement),
                       TRUE, FALSE, "exact", loc)
     ELSE IF index >= 0
     THEN IF tr[parentRun].parent # paragraph
          THEN Outcome(t2, FALSE, TRUE, "threw", loc)
          ELSE Outcome(splitRun(t2, paragraph, parentRun, element, delElement, insElement,
                                text, index, Len(suggestion.original)),
                       TRUE, FALSE, "partial", loc)
     ELSE Outcome(t2, TRUE, FALSE, "absent", NoLoc)

\* the offset loop with ">=" in the test for the start node: a match that
\* begins at a span boundary is given the span before it
RECURSIVE scanGroup_startInclusive(_, _, _, _, _, _)
scanGroup_startInclusive(nodeGroup, len, index, i, currentPos, st) ==
  IF i > Len(nodeGroup) THEN st
  ELSE LET nodeTextLen == Len(nodeGroup[i].text)
           s1 == IF st.startNodeIdx = 0 /\ currentPos + nodeTextLen >= index
                 THEN [st EXCEPT !.startNodeIdx = i, !.startOffset = index - currentPos]
                 ELSE st
       IN IF currentPos + nodeTextLen >= index + len
          THEN [s1 EXCEPT !.endNodeIdx = i, !.endOffset = (index + len) - currentPos]
          ELSE scanGroup_startInclusive(nodeGroup, len, index, i + 1,
                                        currentPos + nodeTextLen, s1)

\* the offset loop of applyMultiNodeChange (route.ts:505-526); node indexes
\* are 1-based here, 0 stands for the code's -1
RECURSIVE scanGroup(_, _, _, _, _, _)
scanGroup(nodeGroup, len, index, i, currentPos, st) ==
  IF i > Len(nodeGroup) THEN st
  ELSE LET nodeTextLen == Len(nodeGroup[i].text)
           s1 == IF st.startNodeIdx = 0 /\ currentPos + nodeTextLen > index
                 THEN [st EXCEPT !.startNodeIdx = i, !.startOffset = index - currentPos]
                 ELSE st
       IN IF currentPos + nodeTextLen >= index + len
          THEN [s1 EXCEPT !.endNodeIdx = i, !.endOffset = (index + len) - currentPos]
          ELSE scanGroup(nodeGroup, len, index, i + 1, currentPos + nodeTextLen, s1)

\* runsToRemove (route.ts:563-569)
RECURSIVE collectRuns(_, _, _, _, _)
collectRuns(tr, nodeGroup, i, last, acc) ==
  IF i > last THEN acc
  ELSE LET run == findParentRun(tr, nodeGroup[i].element)
       IN collectRuns(tr, nodeGroup, i + 1, last,
                      IF run # 0 /\ childIndex(acc, run) = 0 THEN Append(acc, run) ELSE acc)

\* runsToRemove.forEach (route.ts:594-599)
RECURSIVE removeRuns(_, _, _)
removeRuns(tr, paragraph, runs) ==
  IF runs = <<>> THEN tr
  ELSE removeRuns(IF tr[Head(runs)].parent = paragraph
                  THEN removeChild(tr, paragraph, Head(runs))
                  ELSE tr,
                  paragraph, Tail(runs))

\* applyMultiNodeChange (route.ts:492-605)
applyMultiNodeChange(tr, nodeGroup, combinedText, suggestion, changeId) ==
  LET index == indexOf(combinedText, suggestion.original)
      loc == scanGroup(nodeGroup, Len(suggestion.original), index, 1, 0, NoLoc)
      firstElement == nodeGroup[loc.startNodeIdx].element
      firstRun == findParentRun(tr, firstElement)
      paragraph == findParentParagraph(tr, firstRun)
      delElement == Len(tr) + 1
      t1 == createDeletionElement(tr, changeId, suggestion.original, firstRun)
      insElement == Len(t1) + 1
      t2 == createInsertionElement(t1, changeId + 1, suggestion.suggestion, firstRun)
      runsToRemove == collectRuns(t2, nodeGroup, loc.startNodeIdx, loc.endNodeIdx, <<>>)
      firstRunToRemove == runsToRemove[1]
      lastRunToRemove == runsToRemove[Len(runsToRemove)]
      beforeText == substringTo(nodeGroup[loc.startNodeIdx].text, loc.startOffset)
      beforeRun == Len(t2) + 1
      t3 == IF loc.startOffset > 0
            THEN insertBefore(cloneRun(t2, firstRunToRemove, beforeText),
                              paragraph, beforeRun, firstRunToRemove)
            ELSE t2
      t4 == insertBefore(t3, paragraph, delElement, firstRunToRemove)
      t5 == insertBefore(t4, paragraph, insElement, firstRunToRemove)
      afterText == substringFrom(nodeGroup[loc.endNodeIdx].text, loc.endOffset)
      afterRun == Len(t5) + 1
      t6 == IF loc.endOffset < Len(nodeGroup[loc.endNodeIdx].text)
            THEN insertBefore(cloneRun(t5, lastRunToRemove, afterText),
                              paragraph, afterRun, firstRunToRemove)
            ELSE t5
  IN IF index = -1 THEN Outcome(tr, FALSE, FALSE, "absent", NoLoc)
     ELSE IF loc.startNodeIdx = 0 \/ loc.endNodeIdx = 0
     THEN Outcome(tr, FALSE, FALSE, "unlocated", loc)
     ELSE IF firstRun = 0 THEN Outcome(tr, FALSE, FALSE, "noRun", loc)
     ELSE IF paragraph = 0 THEN Outcome(tr, FALSE, FALSE, "noParagraph", loc)
     ELSE IF loc.startNodeIdx = loc.endNodeIdx
     THEN applySingleNodeChange(t2, firstElement, nodeGroup[loc.startNodeIdx].text,
                                suggestion, changeId)
     ELSE IF Len(runsToRemove) > 0
     THEN IF t2[firstRunToRemove].parent # paragraph
          THEN Outcome(t2, FALSE, TRUE, "threw", loc)
          ELSE Outcome(removeRuns(t6, paragraph, runsToRemove), TRUE, FALSE, "multi", loc)
     ELSE Outcome(t2, FALSE, FALSE, "noRuns", loc)

\* ----------------------------------------------------------- the resolver
\* move a location from positions in nodeGroup to positions in textNodes
shiftLoc(loc, by) ==
  IF loc.startNodeIdx = 0 THEN loc
  ELSE [loc EXCEPT !.startNodeIdx = @ + by,
                   !.endNodeIdx = IF @ = 0 THEN 0 ELSE @ + by]

shifted(out, by) == [out EXCEPT !.loc = shiftLoc(out.loc, by)]

\* singlePass comparing the texts after whitespace normalization, as the
\* pre-check does
singlePass_normalized(textNodes, original) ==
  IF \E i \in 1..Len(textNodes) : includes(normalize(textNodes[i].text), normalize(original))
  THEN CHOOSE i \in 1..Len(textNodes) :
         /\ includes(normalize(textNodes[i].text), normalize(original))
         /\ \A k \in 1..(i - 1) :
              ~includes(normalize(textNodes[k].text), normalize(original))
  ELSE 0

\* singlePass that keeps scanning and ends on the last span containing the anchor
singlePass_last(textNodes, original) ==
  IF \E i \in 1..Len(textNodes) : includes(textNodes[i].text, original)
  THEN CHOOSE i \in 1..Len(textNodes) :
         /\ includes(textNodes[i].text, original)
         /\ \A k \in (i + 1)..Len(textNodes) : ~includes(textNodes[k].text, original)
  ELSE 0

\* first i with textNodes[i].text containing the anchor (route.ts:397-403)
singlePass(textNodes, original) ==
  IF \E i \in 1..Len(textNodes) : includes(textNodes[i].text, original)
  THEN CHOOSE i \in 1..Len(textNodes) :
         /\ includes(textNodes[i].text, original)
         /\ \A k \in 1..(i - 1) : ~includes(textNodes[k].text, original)
  ELSE 0

\* windowEnd whose window admits one span too few
RECURSIVE windowEnd_short(_, _, _, _, _)
windowEnd_short(textNodes, original, i, j, combinedText) ==
  IF j > i + WindowCap - 2 \/ j > Len(textNodes) THEN 0
  ELSE IF includes(combinedText \o textNodes[j].text, original) THEN j
  ELSE windowEnd_short(textNodes, original, i, j + 1, combinedText \o textNodes[j].text)

\* windowEnd whose window admits one span too many
RECURSIVE windowEnd_offByOne(_, _, _, _, _)
windowEnd_offByOne(textNodes, original, i, j, combinedText) ==
  IF j > i + WindowCap \/ j > Len(textNodes) THEN 0
  ELSE IF includes(combinedText \o textNodes[j].text, original) THEN j
  ELSE windowEnd_offByOne(textNodes, original, i, j + 1, combinedText \o textNodes[j].text)

\* the inner loop over j for one window start i (route.ts:411-418): the first
\* j at which the accumulated text contains the anchor, 0 when none does
RECURSIVE windowEnd(_, _, _, _, _)
windowEnd(textNodes, original, i, j, combinedText) ==
  IF j > i + WindowCap - 1 \/ j > Len(textNodes) THEN 0
  ELSE IF includes(combinedText \o textNodes[j].text, original) THEN j
  ELSE windowEnd(textNodes, original, i, j + 1, combinedText \o textNodes[j].text)

\* the outer loop over i (route.ts:406-419)
RECURSIVE multiPass(_, _, _, _, _)
multiPass(tr, textNodes, suggestion, changeId, i) ==
  IF i > Len(textNodes) THEN Outcome(tr, FALSE, FALSE, "unlocated", NoLoc)
  ELSE LET j == windowEnd(textNodes, suggestion.original, i, i, <<>>)
           nodeGroup == SubSeq(textNodes, i, j)
       IN IF j # 0
          THEN shifted(applyMultiNodeChange(tr, nodeGroup, joinTexts(nodeGroup),
                                            suggestion, changeId), i - 1)
          ELSE multiPass(tr, textNodes, suggestion, changeId, i + 1)

\* the existence pre-check (route.ts:382-394)
preCheck(textNodes, original) ==
  LET fullDocumentText == joinTexts(textNodes)
  IN \/ includes(fullDocumentText, original)
     \/ includes(normalize(fullDocumentText), normalize(original))

\* applyTrackChangeToXml without the pre-check's early return and with the
\* first text node taken as the match when neither pass locates the anchor
applyTrackChangeToXml_noEarlyReturn(tr, textNodes, suggestion, changeId) ==
  LET i == singlePass(textNodes, suggestion.original)
      m == multiPass(tr, textNodes, suggestion, changeId, 1)
  IN IF i # 0
     THEN shifted(applySingleNodeChange(tr, textNodes[i].element, textNodes[i].text,
                                        suggestion, changeId), i - 1)
     ELSE IF m.how = "unlocated" /\ textNodes # <<>>
     THEN applySingleNodeChange(tr, textNodes[1].element, textNodes[1].text,
                                suggestion, changeId)
     ELSE m

\* applyTrackChangeToXml (route.ts:373-423)
applyTrackChangeToXml(tr, textNodes, suggestion, changeId) ==
  LET i == singlePass(textNodes, suggestion.original)
  IN IF ~preCheck(textNodes, suggestion.original)
     THEN Outcome(tr, FALSE, FALSE, "notFound", NoLoc)
     ELSE IF i # 0
     THEN shifted(applySingleNodeChange(tr, textNodes[i].element, textNodes[i].text,
                                        suggestion, changeId), i - 1)
     ELSE multiPass(tr, textNodes, suggestion, changeId, 1)

\* ------------------------------------------------ the settings part patch
\* word/settings.xml as the tags of the direct children of w:settings, in
\* order; NoSettings stands for a package without the part
Settings(kids) == [exists |-> TRUE, kids |-> kids]

NoSettings == [exists |-> FALSE, kids |-> <<>>]

\* enableTrackChanges without the scan for an existing flag
enableTrackChanges_alwaysAppends(settings) ==
  IF ~settings.exists THEN Settings(<<"trackRevisions">>)
  ELSE Settings(Append(settings.kids, "trackRevisions"))

\* enableTrackChanges putting the flag in front of the other children
enableTrackChanges_prepends(settings) ==
  IF ~settings.exists THEN Settings(<<"trackRevisions">>)
  ELSE IF \E i \in 1..Len(settings.kids) : settings.kids[i] = "trackRevisions"
       THEN settings
       ELSE Settings(<<"trackRevisions">> \o settings.kids)

\* enableTrackChanges (route.ts:710-755)
enableTrackChanges(settings) ==
  IF ~settings.exists THEN Settings(<<"trackRevisions">>)
  ELSE IF \E i \in 1..Len(settings.kids) : settings.kids[i] = "trackRevisions"
       THEN settings
       ELSE Settings(Append(settings.kids, "trackRevisions"))

\* ------------------------------------------------------- input documents
\* A document is described by its text leaves in document order; each leaf
\* says where its w:t sits:
\*   "run"   in a run of the current paragraph
\*   "para"  in a run that opens a new paragraph
\*   "link"  in a run nested in a w:hyperlink of the current paragraph
\*   "bare"  directly in the current paragraph, without a run
\*   "loose" in a run that is a child of the body, outside any paragraph
Leaf(text, place, rPr) == [text |-> text, place |-> place, rPr |-> rPr]

EmptyBody == << Node("body", 0, <<>>, <<>>, "none", 0) >>

\* the last paragraph among the children of the body, 0 when there is none
lastParagraph(tr) ==
  LET ps == SelectSeq(tr[1].kids, LAMBDA k : tr[k].tag = "p")
  IN IF ps = <<>> THEN 0 ELSE ps[Len(ps)]

\* append an element with the given tag (and text, rPr) under par
addElement(tr, par, tag, text, rPr) ==
  appendChild(Append(tr, Node(tag, 0, <<>>, text, rPr, 0)), par, Len(tr) + 1)

withParagraph(tr, fresh) ==
  IF fresh \/ lastParagraph(tr) = 0 THEN addElement(tr, 1, "p", <<>>, "none") ELSE tr

addLeaf(tr, leaf) ==
  LET t0 == withParagraph(tr, leaf.place = "para")
      p == lastParagraph(t0)
      n == Len(t0)
  IN CASE leaf.place \in {"run", "para"} ->
            addElement(addElement(t0, p, "r", <<>>, leaf.rPr), n + 1, "t", leaf.text, "none")
       [] leaf.place = "link" ->
            addElement(addElement(addElement(t0, p, "hyperlink", <<>>, "none"),
                                  n + 1, "r", <<>>, leaf.rPr),
                       n + 2, "t", leaf.text, "none")
       [] leaf.place = "bare" ->
            addElement(t0, p, "t", leaf.text, "none")
       [] leaf.place = "loose" ->
            addElement(addElement(tr, 1, "r", <<>>, leaf.rPr), Len(tr) + 1, "t", leaf.text, "none")

\* DOMParser.parseFromString on the document described by the leaves; the
\* tree of the leaves read so far is built before the next leaf is read
RECURSIVE parseLeaves(_, _)
parseLeaves(tr, leaves) ==
  IF leaves = <<>> THEN tr
  ELSE LET grown == addLeaf(tr, Head(leaves))
       IN IF Len(grown) > Len(tr) THEN parseLeaves(grown, Tail(leaves)) ELSE grown

Parse(leaves) == parseLeaves(EmptyBody, leaves)

A == <<"a">>
B == <<"b">>
AB == <<"a", "b">>
X == <<"x">>
RunTexts == {A, B, AB}

\* runs of one paragraph: every sequence of 1..MaxRuns run texts; the runs
\* alternate between bold and unformatted
PlainDocs ==
  { [i \in DOMAIN f |-> Leaf(f[i], "run", IF i % 2 = 1 THEN "bold" ELSE "none")] :
      f \in UNION { [1..n -> RunTexts] : n \in 1..MaxRuns } }

Places == {"run", "para", "link", "bare", "loose"}

\* two leaves "a" and "b" in every pair of places
LayoutDocs ==
  { << Leaf(A, p1, "bold"), Leaf(B, p2, "none") >> : p1 \in Places, p2 \in Places }

\* a run split on both sides, a whitespace-only run between two runs, and a
\* run whose text holds a blank
TextDocs ==
  { << Leaf(<<"a", "b", "a">>, "run", "bold") >>,
    << Leaf(A, "run", "bold"), Leaf(<<" ">>, "run", "none"), Leaf(B, "run", "none") >>,
    << Leaf(<<"a", " ", "b">>, "run", "bold"), Leaf(B, "run", "none") >> }

Docs == PlainDocs \cup LayoutDocs \cup TextDocs

\* one paragraph of n single-character runs "a", "b", "a", ...
LongDoc(n) ==
  [i \in 1..n |-> Leaf(IF i % 2 = 1 THEN A ELSE B, "run", "none")]

\* a long document followed by two runs that hold its text again, cut in two
SplitDoc(n) ==
  LET whole == [i \in 1..n |-> IF i % 2 = 1 THEN "a" ELSE "b"]
  IN LongDoc(n) \o << Leaf(SubSeq(whole, 1, n \div 2), "run", "bold"),
                      Leaf(SubSeq(whole, n \div 2 + 1, n), "run", "none") >>

LongDocs == { LongDoc(n) : n \in (WindowCap + 1)..LongRuns } \cup { SplitDoc(WindowCap + 1) }

SettingTags == {"zoom", "compat", "trackRevisions"}

SettingsParts ==
  {NoSettings} \cup { Settings(k) : k \in UNION { [1..n -> SettingTags] : n \in 0..MaxSettings } }

\* the parts of the package besides document.xml and settings.xml, by name
OtherParts ==
  { [n \in {"[Content_Types].xml", "word/styles.xml"} |-> "original"],
    [n \in {"[Content_Types].xml"} |-> "original"] }

\* ------------------------------------------------------- the AI's changes
\* one record of NDAResponseSchema.changes; new = <<>> stands for a change
\* without match.new (or with an empty one)
Change(type, original, new) == [type |-> type, original |-> original, new |-> new]

BaseChanges ==
  { Change("replace", A, X), Change("replace", B, X), Change("replace", AB, X),
    Change("replace", <<"c">>, X), Change("replace", <<"a", "\t", "b">>, X),
    Change("replace", <<"b", "a">>, X),
    Change("insert", A, X), Change("delete", A, <<>>), Change("delete", A, X) }

\* anchors of a long document that need WindowCap spans or one more: the
\* stretches of WindowCap and WindowCap + 1 characters at its first two offsets
LongChanges(text) ==
  { Change("replace", SubSeq(text, w[1], w[1] + w[2] - 1), X) :
      w \in { v \in (1..2) \X (WindowCap..(WindowCap + 1)) : v[1] + v[2] - 1 <= Len(text) } }

ChangeChoices(text) == BaseChanges \cup LongChanges(text)

ChangeLists(text) ==
  UNION { [1..n -> ChangeChoices(text)] : n \in 0..MaxOps }

\* a map that reads the kind and keeps the anchor of an insert in the new text
toSuggestion_insertKeepsAnchor(change) ==
  [original |-> change.original,
   suggestion |-> IF change.type = "insert" THEN change.original \o change.new
                  ELSE change.new]

\* analyzeLegalDocument's map and filter (route.ts:267-274)
toSuggestion(change) == [original |-> change.original, suggestion |-> change.new]

keep(s) == s.original # <<>> /\ s.suggestion # <<>>

RECURSIVE toSuggestions(_)
toSuggestions(cs) ==
  IF cs = <<>> THEN <<>>
  ELSE (IF keep(toSuggestion(Head(cs))) THEN <<toSuggestion(Head(cs))>> ELSE <<>>)
       \o toSuggestions(Tail(cs))

\* ------------------------------------------------------------------ state
VARIABLES
  pc,            \* where the request is: "extract", "analyze", "open", "loop", "done", "failed"
  docPart,       \* word/document.xml of the package: its tree, <<>> when the part is missing
  settingsPart,  \* word/settings.xml of the package
  text,          \* the text handed to the AI step
  changes,       \* what the AI step returned
  suggestions,   \* the suggestions kept by the filter
  xmlDoc,        \* the tree being edited
  textNodes,     \* the snapshot of text nodes taken before the loop
  next,          \* position in suggestions of the next one to apply
  changeId,      \* the revision counter
  appliedCount,  \* number of suggestions applied
  outcomes,      \* what each processed suggestion did, in order
  response,      \* what POST returned: "none", "original", "modified", "error"
  otherParts,    \* the parts of the package besides document.xml and settings.xml
  steps,         \* what addTrackChangesToDocument has done so far, in order
  parked         \* a second request, waiting at an await while this one runs

vars == <<pc, docPart, settingsPart, text, changes, suggestions, xmlDoc, textNodes,
          next, changeId, appliedCount, outcomes, response, otherParts, steps, parked>>

InitWith(docs, settings, others) ==
  /\ pc = "extract"
  /\ docPart \in { Parse(d) : d \in docs } \cup { <<>> }
  /\ settingsPart \in settings
  /\ text = <<>>
  /\ changes = <<>>
  /\ suggestions = <<>>
  /\ xmlDoc = <<>>
  /\ textNodes = <<>>
  /\ next = 1
  /\ changeId = 0
  /\ appliedCount = 0
  /\ outcomes = <<>>
  /\ response = "none"
  /\ otherParts \in others
  /\ steps = <<>>

\* no second request
NoPass == [pc |-> "none"]

FewParts == [n \in {"[Content_Types].xml"} |-> "original"]

\* every document in a package without settings part; the one-run document
\* with every settings part; and the one-run document in each package
Init ==
  /\ \/ InitWith(Docs, {NoSettings}, {FewParts})
     \/ InitWith({ << Leaf(A, "run", "bold") >> }, SettingsParts, {FewParts})
     \/ InitWith({ << Leaf(A, "run", "bold") >> }, {NoSettings}, OtherParts)
  /\ parked = NoPass

InitLong == InitWith(LongDocs, {NoSettings}, {FewParts}) /\ parked = NoPass

\* extractTextFromXml without the check for a missing document.xml
ExtractText_ignoresMissing ==
  /\ pc = "extract"
  /\ pc' = "analyze"
  /\ text' = IF docPart = <<>> THEN <<>> ELSE joinTexts(getAllTextNodes(docPart))
  /\ UNCHANGED <<docPart, settingsPart, changes, suggestions, xmlDoc, textNodes, next,
                 changeId, appliedCount, outcomes, response, otherParts, steps, parked>>

\* POST up to extractTextFromXml (route.ts:183, 231-250); a missing
\* document.xml throws and POST answers with the error (route.ts:217-223)
ExtractText ==
  /\ pc = "extract"
  /\ IF docPart = <<>>
     THEN /\ pc' = "failed"
          /\ response' = "error"
          /\ UNCHANGED text
     ELSE /\ pc' = "analyze"
          /\ text' = joinTexts(getAllTextNodes(docPart))
          /\ UNCHANGED response
  /\ UNCHANGED <<docPart, settingsPart, changes, suggestions, xmlDoc, textNodes,
                 next, changeId, appliedCount, outcomes, otherParts, steps, parked>>

\* analyzeLegalDocument (route.ts:252-278) and POST's early return of the
\* original file when no suggestion is left (route.ts:191-201)
AnalyzeFrom(lists) ==
  /\ pc = "analyze"
  /\ \E cs \in lists :
       /\ changes' = cs
       /\ suggestions' = toSuggestions(cs)
       /\ IF toSuggestions(cs) = <<>>
          THEN pc' = "done" /\ response' = "original"
          ELSE pc' = "open" /\ UNCHANGED response
  /\ UNCHANGED <<docPart, settingsPart, text, xmlDoc, textNodes, next, changeId,
                 appliedCount, outcomes, otherParts, steps, parked>>

Analyze == AnalyzeFrom(ChangeLists(text))

\* addTrackChangesToDocument up to the loop (route.ts:285-307)
Open ==
  /\ pc = "open"
  /\ IF docPart = <<>>
     THEN /\ pc' = "failed"
          /\ response' = "error"
          /\ UNCHANGED <<xmlDoc, textNodes, changeId, appliedCount, next, steps>>
     ELSE /\ pc' = "loop"
          /\ xmlDoc' = docPart
          /\ changeId' = 1
          /\ textNodes' = getAllTextNodes(docPart)
          /\ appliedCount' = 0
          /\ next' = 1
          /\ steps' = <<"extract">>
          /\ UNCHANGED response
  /\ UNCHANGED <<docPart, settingsPart, text, changes, suggestions, outcomes,
                 otherParts, parked>>

\* one iteration of the loop (route.ts:308-325); an exception leaves
\* addTrackChangesToDocument and POST answers with the error
ApplyNext ==
  /\ pc = "loop"
  /\ next <= Len(suggestions)
  /\ LET out == applyTrackChangeToXml(xmlDoc, textNodes, suggestions[next], changeId)
     IN /\ outcomes' = Append(outcomes,
                              [suggestion |-> suggestions[next], changeId |-> changeId,
                               applied |-> out.applied, threw |-> out.threw,
                               how |-> out.how, loc |-> out.loc])
        /\ IF out.threw
           THEN /\ pc' = "failed"
                /\ response' = "error"
                /\ UNCHANGED <<xmlDoc, changeId, appliedCount, next>>
                /\ steps' = Append(steps, "throw")
           ELSE /\ xmlDoc' = out.tree
                /\ changeId' = IF out.applied THEN changeId + 1 ELSE changeId
                /\ appliedCount' = IF out.applied THEN appliedCount + 1 ELSE appliedCount
                /\ next' = next + 1
                /\ steps' = Append(steps, "apply")
                /\ UNCHANGED <<pc, response>>
  /\ UNCHANGED <<docPart, settingsPart, text, changes, suggestions, textNodes,
                 otherParts, parked>>

\* a package generated from the two stored parts alone
Finish_twoPartsOnly ==
  /\ pc = "loop"
  /\ next > Len(suggestions)
  /\ docPart' = xmlDoc
  /\ settingsPart' = enableTrackChanges(settingsPart)
  /\ otherParts' = [n \in {} |-> "original"]
  /\ pc' = "done"
  /\ response' = "modified"
  /\ steps' = Append(steps, "patch")
  /\ UNCHANGED <<text, changes, suggestions, xmlDoc, textNodes, next, changeId,
                 appliedCount, outcomes, parked>>

\* after the loop: serialize, store document.xml, enableTrackChanges,
\* generate the package and return it (route.ts:328-344, 208-216)
Finish ==
  /\ pc = "loop"
  /\ next > Len(suggestions)
  /\ docPart' = xmlDoc
  /\ settingsPart' = enableTrackChanges(settingsPart)
  /\ pc' = "done"
  /\ response' = "modified"
  /\ steps' = Append(steps, "patch")
  /\ UNCHANGED <<text, changes, suggestions, xmlDoc, textNodes, next, changeId,
                 appliedCount, outcomes, otherParts, parked>>

Next == ExtractText \/ Analyze \/ Open \/ ApplyNext \/ Finish

Spec == Init /\ [][Next]_vars

SpecLong == InitLong /\ [][Next]_vars

\* ------------------------------------------------------ two requests at once
\* Everything a request works on is local to its call of POST and of
\* addTrackChangesToDocument (route.ts:156, 286-307: buffer, zip, xmlDoc,
\* "let changeId = 1", textNodes); the module keeps no mutable state.
thisPass ==
  [pc |-> pc, docPart |-> docPart, settingsPart |-> settingsPart, text |-> text,
   changes |-> changes, suggestions |-> suggestions, xmlDoc |-> xmlDoc,
   textNodes |-> textNodes, next |-> next, changeId |-> changeId,
   appliedCount |-> appliedCount, outcomes |-> outcomes, response |-> response,
   otherParts |-> otherParts, steps |-> steps]

\* the switch with changeId kept in a variable of the module
Switch_sharedCounter ==
  /\ parked.pc # "none"
  /\ parked' = thisPass
  /\ pc' = parked.pc
  /\ docPart' = parked.docPart
  /\ settingsPart' = parked.settingsPart
  /\ text' = parked.text
  /\ changes' = parked.changes
  /\ suggestions' = parked.suggestions
  /\ xmlDoc' = parked.xmlDoc
  /\ textNodes' = parked.textNodes
  /\ next' = parked.next
  /\ UNCHANGED changeId
  /\ appliedCount' = parked.appliedCount
  /\ outcomes' = parked.outcomes
  /\ response' = parked.response
  /\ otherParts' = parked.otherParts
  /\ steps' = parked.steps

\* the running request is suspended and the other one resumes; the code
\* can only be suspended at an await, the model lets it happen between
\* any two steps
Switch ==
  /\ parked.pc # "none"
  /\ parked' = thisPass
  /\ pc' = parked.pc
  /\ docPart' = parked.docPart
  /\ settingsPart' = parked.settingsPart
  /\ text' = parked.text
  /\ changes' = parked.changes
  /\ suggestions' = parked.suggestions
  /\ xmlDoc' = parked.xmlDoc
  /\ textNodes' = parked.textNodes
  /\ next' = parked.next
  /\ changeId' = parked.changeId
  /\ appliedCount' = parked.appliedCount
  /\ outcomes' = parked.outcomes
  /\ response' = parked.response
  /\ otherParts' = parked.otherParts
  /\ steps' = parked.steps

\* the documents and the changes of the two requests
ConcDocs ==
  { << Leaf(A, "run", "bold"), Leaf(B, "run", "none") >>,
    << Leaf(AB, "run", "bold") >> }

ConcChanges == { Change("replace", A, X), Change("insert", B, X) }

ConcLists == UNION { [1..n -> ConcChanges] : n \in 0..MaxOps }

AnalyzeFew == AnalyzeFrom(ConcLists)

\* a request that has not started yet
newPass(doc) ==
  [pc |-> "extract", docPart |-> doc, settingsPart |-> NoSettings, text |-> <<>>,
   changes |-> <<>>, suggestions |-> <<>>, xmlDoc |-> <<>>, textNodes |-> <<>>,
   next |-> 1, changeId |-> 0, appliedCount |-> 0, outcomes |-> <<>>,
   response |-> "none", otherParts |-> FewParts, steps |-> <<>>]

InitConc ==
  /\ InitWith(ConcDocs, {NoSettings}, {FewParts})
  /\ parked \in { newPass(Parse(d)) : d \in ConcDocs }

NextConc == ExtractText \/ AnalyzeFew \/ Open \/ ApplyNext \/ Finish \/ Switch

SpecConc == InitConc /\ [][NextConc]_vars

\* the loop of addTrackChangesToDocument (route.ts:299-325) run on its own
\* from changeId cid over the suggestions suggs
RECURSIVE runAlone(_, _, _, _)
runAlone(tr, nodes, suggs, cid) ==
  IF suggs = <<>> THEN [tree |-> tr, changeId |-> cid, threw |-> FALSE]
  ELSE LET out == applyTrackChangeToXml(tr, nodes, Head(suggs), cid)
       IN IF out.threw THEN [tree |-> tr, changeId |-> cid, threw |-> TRUE]
          ELSE runAlone(out.tree, nodes, Tail(suggs),
                        IF out.applied THEN cid + 1 ELSE cid)

\* ------------------------------------------------- vocabulary of the claims
\* the suggestion the next loop iteration processes
applying == pc = "loop" /\ next <= Len(suggestions)
current == suggestions[next]
fullText == joinTexts(textNodes)
latest == outcomes'[Len(outcomes')]

\* n hangs in the tree under the root
RECURSIVE attached(_, _)
attached(tr, n) ==
  IF n = 1 THEN TRUE
  ELSE IF n = 0 \/ tr[n].parent = 0 THEN FALSE
  ELSE attached(tr, tr[n].parent)

\* all nodes under n in document order
RECURSIVE preorder(_, _), preorderAll(_, _)
preorder(tr, n) == <<n>> \o preorderAll(tr, tr[n].kids)
preorderAll(tr, ks) ==
  IF ks = <<>> THEN <<>> ELSE preorder(tr, Head(ks)) \o preorderAll(tr, Tail(ks))

runsInOrder(tr) == SelectSeq(preorder(tr, 1), LAMBDA n : tr[n].tag = "r")

\* a run holding exactly one text leaf with the given text
isRunWith(tr, r, txt) ==
  /\ tr[r].tag = "r"
  /\ Len(tr[r].kids) = 1
  /\ tr[tr[r].kids[1]].tag = "t"
  /\ tr[tr[r].kids[1]].text = txt

\* a revision marker of the given kind wrapping exactly one run with the text
isMarker(tr, m, kind, txt) ==
  /\ tr[m].tag = kind
  /\ Len(tr[m].kids) = 1
  /\ isRunWith(tr, tr[m].kids[1], txt)

\* the w:id values of the markers in the tree, in the order of their creation
markerIds(tr) ==
  LET ms == SelectSeq([n \in 1..Len(tr) |-> n],
                      LAMBDA n : tr[n].tag \in {"del", "ins"} /\ attached(tr, n))
  IN [k \in 1..Len(ms) |-> tr[ms[k]].wid]

\* the span the single-span scan stops at, its run and its paragraph
hit == singlePass(textNodes, current.original)
hitElement == textNodes[hit].element
hitText == textNodes[hit].text
hitRun == findParentRun(xmlDoc, hitElement)
hitParagraph == findParentParagraph(xmlDoc, hitRun)
hitRunInParagraph ==
  /\ hit # 0
  /\ hitRun # 0
  /\ hitParagraph # 0
  /\ xmlDoc[hitRun].parent = hitParagraph

\* offsets (0-based) at which the anchor occurs in a text
occurrences(txt, anchor) ==
  { p \in 0..(Len(txt) - Len(anchor)) : SubSeq(txt, p + 1, p + Len(anchor)) = anchor }

\* number of characters in the first k spans
prefixLen(ns, k) == Len(joinTexts(SubSeq(ns, 1, k)))

\* the span holding the c-th character (1-based) of the flattened text
spanOf(ns, c) ==
  CHOOSE k \in 1..Len(ns) : prefixLen(ns, k - 1) < c /\ c <= prefixLen(ns, k)

\* number of consecutive spans the occurrence at offset p touches
spansTouched(ns, p, len) == spanOf(ns, p + len) - spanOf(ns, p + 1) + 1

\* offset in the flattened text of a location's first character
globalStart(ns, loc) == prefixLen(ns, loc.startNodeIdx - 1) + loc.startOffset

\* the operation left everything as it was and counts as not applied
skippedUnchanged ==
  /\ xmlDoc' = xmlDoc
  /\ ~latest.applied
  /\ ~latest.threw
  /\ changeId' = changeId
  /\ appliedCount' = appliedCount
  /\ pc' = "loop"

\* ------------------------------------------------------------------ claims

\* C1: the revision ids written on the emitted deletion and insertion
\* markers of one pass are pairwise distinct and strictly increase in
\* application order (deletion id, insertion id, next deletion id, ...).
C1_MarkerIdsIncrease ==
  xmlDoc # <<>> =>
    \A i, j \in 1..Len(markerIds(xmlDoc)) :
      i < j => markerIds(xmlDoc)[i] < markerIds(xmlDoc)[j]

\* C2: when the anchor equals the whole text of the located run and the run
\* is a child of its paragraph, the run is replaced in the paragraph's child
\* sequence by a new deletion marker holding the anchor followed by a new
\* insertion marker holding the replacement, at the run's position; every
\* other child keeps its identity, its content and its relative order.
ExactCase == applying /\ hitRunInParagraph /\ hitText = current.original

ExactEffect ==
  LET ks == xmlDoc[hitParagraph].kids
      ks2 == xmlDoc'[hitParagraph].kids
      i == childIndex(ks, hitRun)
  IN /\ latest.applied
     /\ Len(ks2) = Len(ks) + 1
     /\ SubSeq(ks2, 1, i - 1) = SubSeq(ks, 1, i - 1)
     /\ ks2[i] \notin DOMAIN xmlDoc
     /\ isMarker(xmlDoc', ks2[i], "del", current.original)
     /\ ks2[i + 1] \notin DOMAIN xmlDoc
     /\ isMarker(xmlDoc', ks2[i + 1], "ins", current.suggestion)
     /\ SubSeq(ks2, i + 2, Len(ks2)) = SubSeq(ks, i + 1, Len(ks))
     /\ \A n \in DOMAIN xmlDoc : n \notin {hitParagraph, hitRun} => xmlDoc'[n] = xmlDoc[n]

C2_ExactMatchReplacesRun == [][ExactCase => ExactEffect]_vars

\* C2 witness: an exact full match was applied in a paragraph that holds
\* other children besides the two markers
C2_Witness ==
  /\ pc = "loop"
  /\ \E k \in DOMAIN outcomes :
       /\ outcomes[k].how = "exact"
       /\ \E n \in DOMAIN xmlDoc :
            /\ isMarker(xmlDoc, n, "del", outcomes[k].suggestion.original)
            /\ xmlDoc[n].parent # 0
            /\ Len(xmlDoc[xmlDoc[n].parent].kids) > 2

\* C3: when the anchor is a proper substring of the located run's text at
\* offset idx and the run is a child of its paragraph, the run is replaced
\* in place by: a new plain run with text[0:idx] if that is non-empty, the
\* deletion marker, the insertion marker, and the original run retained
\* with the text after the anchor if that is non-empty (dropped otherwise).
PartialCase == applying /\ hitRunInParagraph /\ hitText # current.original

PartialEffect ==
  LET ks == xmlDoc[hitParagraph].kids
      ks2 == xmlDoc'[hitParagraph].kids
      i == childIndex(ks, hitRun)
      idx == indexOf(hitText, current.original)
      before == SubSeq(hitText, 1, idx)
      after == SubSeq(hitText, idx + Len(current.original) + 1, Len(hitText))
      lead == IF before # <<>> THEN 1 ELSE 0
      kept == IF after # <<>> THEN 1 ELSE 0
  IN /\ latest.applied
     /\ Len(ks2) = Len(ks) + lead + 1 + kept
     /\ SubSeq(ks2, 1, i - 1) = SubSeq(ks, 1, i - 1)
     /\ lead = 1 => /\ ks2[i] \notin DOMAIN xmlDoc
                    /\ isRunWith(xmlDoc', ks2[i], before)
     /\ ks2[i + lead] \notin DOMAIN xmlDoc
     /\ isMarker(xmlDoc', ks2[i + lead], "del", current.original)
     /\ ks2[i + lead + 1] \notin DOMAIN xmlDoc
     /\ isMarker(xmlDoc', ks2[i + lead + 1], "ins", current.suggestion)
     /\ kept = 1 => /\ ks2[i + lead + 2] = hitRun
                    /\ xmlDoc'[hitElement].text = after
                    /\ xmlDoc'[hitRun] = xmlDoc[hitRun]
     /\ kept = 0 => ~attached(xmlDoc', hitRun)
     /\ SubSeq(ks2, i + lead + 2 + kept, Len(ks2)) = SubSeq(ks, i + 1, Len(ks))

C3_PartialMatchSplitsRun == [][PartialCase => PartialEffect]_vars

\* C3 witness: a partial match with text on both sides of the anchor was applied
C3_Witness ==
  \E k \in DOMAIN outcomes :
    /\ outcomes[k].how = "partial"
    /\ outcomes[k].loc.startOffset > 0
    /\ outcomes[k].loc.endOffset < Len(textNodes[outcomes[k].loc.startNodeIdx].text)

\* C4: after a multi-run operation is applied, every original run lying
\* between the start run and the end run inclusive, in document order, is
\* absent from the resulting tree.
MultiCase == applying /\ latest.applied /\ latest.loc.startNodeIdx < latest.loc.endNodeIdx

spannedRuns ==
  LET rs == runsInOrder(xmlDoc)
      first == childIndex(rs, findParentRun(xmlDoc, textNodes[latest.loc.startNodeIdx].element))
      last == childIndex(rs, findParentRun(xmlDoc, textNodes[latest.loc.endNodeIdx].element))
  IN IF first = 0 \/ last = 0 THEN {} ELSE { rs[k] : k \in first..last }

C4_SpannedRunsRemoved ==
  [][MultiCase => \A r \in spannedRuns : ~attached(xmlDoc', r)]_vars

\* C5: if the anchor is not a substring of the concatenated span texts,
\* neither exactly nor after collapsing whitespace and trimming, the
\* operation is not applied and the tree is identical to what it was.
NotFoundCase ==
  /\ applying
  /\ ~includes(fullText, current.original)
  /\ ~includes(normalize(fullText), normalize(current.original))

C5_NotFoundLeavesTree == [][NotFoundCase => skippedUnchanged]_vars

\* C5 witness: an operation whose anchor is absent, also after
\* normalization, was processed
C5_Witness ==
  \E k \in DOMAIN outcomes :
    /\ ~includes(fullText, outcomes[k].suggestion.original)
    /\ ~includes(normalize(fullText), normalize(outcomes[k].suggestion.original))

\* C6: an anchor that occurs in the flattened text but whose every
\* occurrence touches more than WindowCap consecutive spans is not located:
\* the operation is not applied and the tree is unchanged.
WindowCase ==
  /\ applying
  /\ occurrences(fullText, current.original) # {}
  /\ \A p \in occurrences(fullText, current.original) :
       spansTouched(textNodes, p, Len(current.original)) > WindowCap

C6_WindowCapNotLocated == [][WindowCase => skippedUnchanged]_vars

\* C6 witness: an operation whose anchor is present only across more than
\* WindowCap spans was processed
C6_Witness ==
  \E k \in DOMAIN outcomes :
    /\ occurrences(fullText, outcomes[k].suggestion.original) # {}
    /\ \A p \in occurrences(fullText, outcomes[k].suggestion.original) :
         spansTouched(textNodes, p, Len(outcomes[k].suggestion.original)) > WindowCap

\* C7 as stated: when the anchor occurs more than once in the flattened
\* text, the occurrence rewritten is the one with the smallest start
\* position in the concatenation of all spans.
C7_FirstTextualOccurrence ==
  \A k \in DOMAIN outcomes :
    (/\ outcomes[k].applied
     /\ Cardinality(occurrences(fullText, outcomes[k].suggestion.original)) > 1)
    => globalStart(textNodes, outcomes[k].loc)
         = indexOf(fullText, outcomes[k].suggestion.original)

\* C7 amended: when the anchor occurs more than once, the occurrence
\* rewritten is the first one inside the first span that contains the whole
\* anchor, if some span does (even when an occurrence straddling earlier
\* spans starts before it); otherwise it is the first occurrence among those
\* that touch at most WindowCap consecutive spans.
C7_SingleSpanThenWindow ==
  \A k \in DOMAIN outcomes :
    LET anchor == outcomes[k].suggestion.original
        loc == outcomes[k].loc
        holders == { i \in 1..Len(textNodes) : includes(textNodes[i].text, anchor) }
        inWindow == { p \in occurrences(fullText, anchor) :
                        spansTouched(textNodes, p, Len(anchor)) <= WindowCap }
    IN (outcomes[k].applied /\ Cardinality(occurrences(fullText, anchor)) > 1)
       => IF holders # {}
          THEN /\ loc.startNodeIdx \in holders
               /\ \A i \in holders : loc.startNodeIdx <= i
               /\ loc.endNodeIdx = loc.startNodeIdx
               /\ loc.startOffset = indexOf(textNodes[loc.startNodeIdx].text, anchor)
          ELSE /\ globalStart(textNodes, loc) \in inWindow
               /\ \A p \in inWindow : globalStart(textNodes, loc) <= p

\* C7 witness: an applied operation rewrote an occurrence inside one span
\* although an occurrence straddling earlier spans starts before it
C7_Witness ==
  \E k \in DOMAIN outcomes :
    /\ outcomes[k].applied
    /\ outcomes[k].how \in {"exact", "partial"}
    /\ globalStart(textNodes, outcomes[k].loc)
         > indexOf(fullText, outcomes[k].suggestion.original)

\* every text leaf of the tree sits in a run that is a child of a paragraph
wellFormed(tr) ==
  \A n \in DOMAIN tr :
    tr[n].tag = "t" =>
      /\ tr[n].parent # 0
      /\ tr[tr[n].parent].tag = "r"
      /\ tr[tr[n].parent].parent # 0
      /\ tr[tr[tr[n].parent].parent].tag = "p"

\* C8: a change of kind delete without replacement text whose anchor is
\* the text of a run of the document is applied as a deletion marker
\* carrying the anchor, and no insertion marker is emitted for it.
C8_DeleteEmitsDeletionOnly ==
  (/\ pc = "done"
   /\ wellFormed(docPart)
   /\ Len(changes) = 1
   /\ changes[1].type = "delete"
   /\ changes[1].new = <<>>
   /\ includes(text, changes[1].original))
  => /\ \E n \in DOMAIN docPart :
          attached(docPart, n) /\ isMarker(docPart, n, "del", changes[1].original)
     /\ \A n \in DOMAIN docPart : docPart[n].tag # "ins"

\* C9: a change of kind delete with non-empty replacement text is rejected
\* at the input boundary: the suggestions handed to the resolver are those
\* of the other changes only.
validChange(c) == ~(c.type = "delete" /\ c.new # <<>>)

C9_DeleteWithReplacementRejected ==
  suggestions = toSuggestions(SelectSeq(changes, validChange))

\* C10: with the primary content part present, no operation makes the
\* request fail: an operation that cannot be applied is skipped, the
\* remaining ones are processed in order and a document is returned.
C10_OperationFailuresNonFatal ==
  docPart # <<>> =>
    /\ response # "error"
    /\ pc = "done" /\ response = "modified" =>
         /\ Len(outcomes) = Len(suggestions)
         /\ \A k \in DOMAIN outcomes : outcomes[k].suggestion = suggestions[k]

\* ------------------------------------------------------- the settings part
\* the step that ends the pass and returns the modified package
finishing == pc = "loop" /\ pc' = "done"

flagCount(settings) ==
  Cardinality({ i \in 1..Len(settings.kids) : settings.kids[i] = "trackRevisions" })

\* C11 as stated: patching the settings part of a returned package once
\* more leaves it as it is, and the part holds exactly one trackRevisions
\* element among the children of w:settings.
C11_SettingsIdempotent ==
  response = "modified" =>
    /\ enableTrackChanges(settingsPart) = settingsPart
    /\ flagCount(settingsPart) = 1

\* C11 amended: patching the settings part of a returned package once more
\* leaves it as it is, and the part holds one trackRevisions element when
\* the input part held none or was missing, and otherwise as many as the
\* input part held.
C11_SettingsIdempotentKeepsFlags ==
  [][finishing =>
       /\ enableTrackChanges(settingsPart') = settingsPart'
       /\ flagCount(settingsPart') =
            (IF flagCount(settingsPart) = 0 THEN 1 ELSE flagCount(settingsPart))]_vars

C11_Witness ==
  /\ response = "modified"
  /\ settingsPart = Settings(<<"zoom", "zoom", "trackRevisions">>)

\* C12: on an existing settings part the patch appends trackRevisions as the
\* last child of w:settings exactly when no child has that tag, and keeps
\* every child the part had, in order; for a package without settings part
\* the result holds trackRevisions as its only child.
C12_SettingsFrame ==
  [][finishing =>
       LET old == settingsPart
           new == settingsPart'
           had == \E i \in 1..Len(old.kids) : old.kids[i] = "trackRevisions"
       IN /\ new.exists
          /\ ~old.exists => new.kids = <<"trackRevisions">>
          /\ old.exists =>
               /\ Len(new.kids) = Len(old.kids) + (IF had THEN 0 ELSE 1)
               /\ \A i \in 1..Len(old.kids) : new.kids[i] = old.kids[i]
               /\ ~had => new.kids[Len(new.kids)] = "trackRevisions"]_vars

C12_Witness ==
  /\ response = "modified"
  /\ settingsPart = Settings(<<"compat", "zoom", "trackRevisions">>)

\* ------------------------------------------------------------ control flow
\* C13: once addTrackChangesToDocument has started, the text nodes are
\* extracted once, before the first suggestion; the suggestions are
\* processed one at a time in the order given; and when the request has
\* ended the settings patch has run exactly once, after the last of them.
C13_PassControlFlow ==
  steps # <<>> =>
    /\ steps[1] = "extract"
    /\ \A i \in 2..Len(steps) : steps[i] # "extract"
    /\ \A k \in DOMAIN outcomes : outcomes[k].suggestion = suggestions[k]
    /\ pc \in {"done", "failed"} =>
         steps = <<"extract">> \o [k \in 1..Len(suggestions) |-> "apply"] \o <<"patch">>

\* C14: for a package without word/document.xml no suggestion is resolved
\* or applied and the pass is never started; the request ends with an
\* error and no document is returned.
C14_MissingDocumentIsFatal ==
  docPart = <<>> =>
    /\ outcomes = <<>>
    /\ steps = <<>>
    /\ response \in {"none", "error"}
    /\ pc \in {"done", "failed"} => response = "error"

C14_Witness == docPart = <<>> /\ pc = "failed" /\ response = "error"

\* ------------------------------------------------------ two requests at once
\* what request p has done so far is what its loop does on its own
asAlone(p) ==
  p.pc = "loop" =>
    LET alone == runAlone(p.docPart, getAllTextNodes(p.docPart),
                          SubSeq(p.suggestions, 1, p.next - 1), 1)
    IN /\ p.xmlDoc = alone.tree
       /\ p.changeId = alone.changeId
       /\ markerIds(p.xmlDoc) = markerIds(alone.tree)

\* C15: when the steps of two requests on two documents are interleaved in
\* any order, the tree and the marker ids of each are those it produces
\* when it runs alone.
C15_PassesIsolated ==
  asAlone(thisPass) /\ (parked.pc # "none" => asAlone(parked))

C15_Witness ==
  /\ pc = "loop" /\ next = 2 /\ Len(suggestions) = 2 /\ changeId = 2
  /\ parked.pc = "loop" /\ parked.next = 2 /\ Len(parked.suggestions) = 2
  /\ parked.changeId = 2
  /\ parked.docPart # docPart

\* ------------------------------------------------------- the operation kind
\* the changes with every insert turned into a replace
asReplace(cs) ==
  [k \in DOMAIN cs |->
     IF cs[k].type = "insert" THEN Change("replace", cs[k].original, cs[k].new)
     ELSE cs[k]]

newRuns == { n \in (Len(xmlDoc) + 1)..Len(xmlDoc') : xmlDoc'[n].tag = "r" }

\* a created run that follows the created insertion marker in the paragraph
trailing(n) ==
  LET p == xmlDoc'[n].parent
  IN /\ p # 0
     /\ xmlDoc'[p].tag = "p"
     /\ \E m \in (Len(xmlDoc) + 1)..Len(xmlDoc') :
          /\ xmlDoc'[m].tag = "ins"
          /\ xmlDoc'[m].parent = p
          /\ childIndex(xmlDoc'[p].kids, m) < childIndex(xmlDoc'[p].kids, n)

\* the runs of the first and of the last span of the located anchor
startRun ==
  IF latest.how = "multi"
  THEN findParentRun(xmlDoc, textNodes[latest.loc.startNodeIdx].element)
  ELSE hitRun

endRun ==
  IF latest.how = "multi"
  THEN findParentRun(xmlDoc, textNodes[latest.loc.endNodeIdx].element)
  ELSE hitRun

\* C17: every run an applied suggestion creates carries the formatting of
\* the run it is cloned from, and no run that existed changes its
\* formatting: the runs in the markers and the leading remainder carry the
\* formatting of the located run (of the start run when the anchor spans
\* several runs), and the trailing remainder of an anchor that spans
\* several runs carries the formatting of the end run.
C17_FormattingContinuity ==
  [][(applying /\ latest.applied) =>
       /\ \A n \in DOMAIN xmlDoc : xmlDoc'[n].rPr = xmlDoc[n].rPr
       /\ \A n \in newRuns :
            xmlDoc'[n].rPr = (IF latest.how = "multi" /\ trailing(n)
                              THEN xmlDoc[endRun].rPr
                              ELSE xmlDoc[startRun].rPr)]_vars

C17_Witness ==
  /\ pc = "loop"
  /\ outcomes # <<>>
  /\ outcomes[Len(outcomes)].how = "multi"
  /\ outcomes[Len(outcomes)].loc.startOffset > 0
  /\ outcomes[Len(outcomes)].loc.endOffset
       < Len(textNodes[outcomes[Len(outcomes)].loc.endNodeIdx].text)
  /\ LET s == findParentRun(docPart, textNodes[outcomes[Len(outcomes)].loc.startNodeIdx].element)
         e == findParentRun(docPart, textNodes[outcomes[Len(outcomes)].loc.endNodeIdx].element)
     IN /\ docPart[s].rPr # docPart[e].rPr
        /\ \E n \in (Len(docPart) + 1)..Len(xmlDoc) :
             /\ xmlDoc[n].tag = "r" /\ xmlDoc[n].parent # 0
             /\ xmlDoc[xmlDoc[n].parent].tag = "p"
             /\ xmlDoc[n].rPr = docPart[e].rPr

\* ------------------------------------------------------------ the package
\* C18: every part of the package other than word/document.xml and
\* word/settings.xml is in the returned package as it was in the input:
\* no step of a request removes or changes one.
C18_OtherPartsKept ==
  [][/\ DOMAIN otherParts' = DOMAIN otherParts
     /\ \A n \in DOMAIN otherParts : otherParts'[n] = otherParts[n]]_vars

C18_Witness ==
  /\ response = "modified"
  /\ xmlDoc # Parse(<< Leaf(A, "run", "bold") >>)
  /\ settingsPart = Settings(<<"trackRevisions">>)
  /\ DOMAIN otherParts = {"[Content_Types].xml", "word/styles.xml"}

\* -------------------------------------------------------------- extraction
\* the child positions that lead from the root to node n
RECURSIVE pathTo(_, _)
pathTo(tr, n) ==
  IF tr[n].parent = 0 THEN <<>>
  ELSE Append(pathTo(tr, tr[n].parent), childIndex(tr[tr[n].parent].kids, n))

\* n comes before m in document order: an ancestor before its descendants,
\* an earlier sibling's subtree before a later sibling's
docBefore(tr, n, m) ==
  LET a == pathTo(tr, n)
      b == pathTo(tr, m)
  IN \/ Len(a) < Len(b) /\ SubSeq(b, 1, Len(a)) = a
     \/ \E i \in 1..Len(a) :
          /\ i <= Len(b)
          /\ SubSeq(a, 1, i - 1) = SubSeq(b, 1, i - 1)
          /\ a[i] < b[i]

nonBlank(txt) == \E i \in 1..Len(txt) : txt[i] \notin Whitespace

textLeaves(tr) == { n \in DOMAIN tr : tr[n].tag = "t" /\ nonBlank(tr[n].text) }

\* the text of the document as read: the texts of all its text leaves in
\* document order, those of blank leaves left out
readingText(tr) ==
  LET order == preorder(tr, 1)
  IN joinTexts(SelectSeq([i \in 1..Len(order) |->
                            [element |-> order[i], text |-> tr[order[i]].text]],
                         LAMBDA s : tr[s.element].tag = "t" /\ nonBlank(s.text)))

\* C19: the spans extracted from a document are its text leaves that are
\* not blank, one span per leaf, in document order, each with the text of
\* its leaf; their texts joined in order are the reading text of the
\* document without its blank leaves. Stated where the loop is entered:
\* neither the snapshot nor the stored part changes during the loop.
C19_Flattening ==
  (pc = "loop" /\ outcomes = <<>>) =>
    /\ { textNodes[i].element : i \in DOMAIN textNodes } = textLeaves(docPart)
    /\ \A i, j \in DOMAIN textNodes :
         i < j => docBefore(docPart, textNodes[i].element, textNodes[j].element)
    /\ \A i \in DOMAIN textNodes :
         textNodes[i].text = docPart[textNodes[i].element].text
    /\ joinTexts(textNodes) = readingText(docPart)
    /\ text = readingText(docPart)

C19_Witness ==
  /\ pc = "loop"
  /\ Len(textNodes) = 2
  /\ \E n \in DOMAIN docPart : docPart[n].tag = "t" /\ ~nonBlank(docPart[n].text)

\* ------------------------------------------------------- unrelated content
\* the text of the plain runs and of the runs in deletion markers, in
\* document order: what the document read before the changes
keptText(tr) ==
  joinTexts(SelectSeq(getAllTextNodes(tr),
                      LAMBDA s : findAncestor(tr, s.element, "ins") = 0))

\* each anchor occurs once in the flattened text and no two of the
\* occurrences share a character
disjointAnchors ==
  /\ \A k \in DOMAIN suggestions :
       Cardinality(occurrences(fullText, suggestions[k].original)) = 1
  /\ \A k, l \in DOMAIN suggestions :
       k < l =>
         LET pk == CHOOSE q \in occurrences(fullText, suggestions[k].original) : TRUE
             pl == CHOOSE q \in occurrences(fullText, suggestions[l].original) : TRUE
         IN \/ pk + Len(suggestions[k].original) <= pl
            \/ pl + Len(suggestions[l].original) <= pk

\* all text of the tree sits in runs that are children of one paragraph
oneParagraph(tr) ==
  /\ wellFormed(tr)
  /\ Cardinality({ n \in DOMAIN tr : tr[n].tag = "p" }) = 1

\* C20: after a pass over suggestions whose anchors occupy pairwise
\* disjoint ranges of the flattened text, the texts of the plain runs and
\* of the runs in deletion markers, joined in document order, are the
\* original flattened text. Stated for documents of one paragraph whose
\* runs are its children, where no anchor crosses a paragraph.
C20_DisjointAnchorsKeepText ==
  (/\ pc = "loop"
   /\ next > Len(suggestions)
   /\ oneParagraph(docPart)
   /\ disjointAnchors)
  => keptText(xmlDoc) = fullText

\* ----------------------------------------------------- resolver and window
\* the anchor is a substring of the joined texts of at most WindowCap
\* consecutive spans of the snapshot
withinWindow(ns, anchor) ==
  \E a \in 1..Len(ns) :
    \E b \in a..(IF a + WindowCap - 1 < Len(ns) THEN a + WindowCap - 1 ELSE Len(ns)) :
      includes(joinTexts(SubSeq(ns, a, b)), anchor)

\* C21: an anchor that is a substring of the joined texts of at most
\* WindowCap consecutive spans is located: in the single-span scan, at the
\* first span holding it, when some span holds it alone, and otherwise in
\* the multi-span scan, over at most WindowCap spans.
C21_LocatedWithinWindow ==
  [][(applying /\ withinWindow(textNodes, current.original)) =>
       /\ latest.how \notin {"notFound", "unlocated", "absent"}
       /\ IF hit # 0
          THEN /\ latest.how \in {"exact", "partial", "noRun", "noParagraph", "threw"}
               /\ latest.loc # NoLoc =>
                    /\ latest.loc.startNodeIdx = hit
                    /\ latest.loc.endNodeIdx = hit
          ELSE /\ latest.loc.startNodeIdx >= 1
               /\ latest.loc.endNodeIdx > latest.loc.startNodeIdx
               /\ latest.loc.endNodeIdx - latest.loc.startNodeIdx + 1 <= WindowCap]_vars

\* C21 witness: an anchor that needs WindowCap spans was located in the
\* multi-span scan
C21_Witness ==
  \E k \in DOMAIN outcomes :
    /\ outcomes[k].how = "multi"
    /\ outcomes[k].loc.endNodeIdx - outcomes[k].loc.startNodeIdx + 1 = WindowCap

\* the outcomes of the multi-span scan that carry a location
multiLocated(k) ==
  /\ singlePass(textNodes, outcomes[k].suggestion.original) = 0
  /\ outcomes[k].loc.startNodeIdx # 0
  /\ outcomes[k].loc.endNodeIdx # 0

\* C22: a location of the multi-span scan names as start span the span
\* holding the first matched character and as end span the span holding the
\* last one, with offsets counted from the beginning of those spans:
\* 0 <= startOffset < length of the start text, 0 < endOffset <= length of
\* the end text, the start span comes before the end span, and the text
\* from startOffset of the start span to endOffset of the end span is the
\* anchor.
C22_MultiSpanOffsets ==
  \A k \in DOMAIN outcomes :
    multiLocated(k) =>
      LET anchor == outcomes[k].suggestion.original
          loc == outcomes[k].loc
          from == prefixLen(textNodes, loc.startNodeIdx - 1) + loc.startOffset
          to == prefixLen(textNodes, loc.endNodeIdx - 1) + loc.endOffset
      IN /\ 0 <= loc.startOffset
         /\ loc.startOffset < Len(textNodes[loc.startNodeIdx].text)
         /\ 0 < loc.endOffset
         /\ loc.endOffset <= Len(textNodes[loc.endNodeIdx].text)
         /\ loc.startNodeIdx < loc.endNodeIdx
         /\ to - from = Len(anchor)
         /\ SubSeq(fullText, from + 1, to) = anchor
         /\ spanOf(textNodes, from + 1) = loc.startNodeIdx
         /\ spanOf(textNodes, to) = loc.endNodeIdx

\* C22 witness: a located anchor that begins and ends inside spans
C22_Witness ==
  \E k \in DOMAIN outcomes :
    /\ multiLocated(k)
    /\ outcomes[k].applied
    /\ outcomes[k].loc.startOffset > 0
    /\ outcomes[k].loc.endOffset < Len(textNodes[outcomes[k].loc.endNodeIdx].text)

\* ------------------------------------------------- the normalized pre-check
\* C23: a suggestion whose anchor is not an exact substring of the
\* flattened text is not applied and leaves the tree as it is, also when
\* the anchor matches after whitespace normalization; a suggestion is
\* applied only if its anchor is an exact substring of the flattened text.
C23_NormalizedMatchNeverEdits ==
  [][applying =>
       /\ ~includes(fullText, current.original) => skippedUnchanged
       /\ latest.applied => includes(fullText, current.original)]_vars

\* C23 witness: a processed suggestion whose anchor matches only after
\* normalization
C23_Witness ==
  \E k \in DOMAIN outcomes :
    /\ ~includes(fullText, outcomes[k].suggestion.original)
    /\ includes(normalize(fullText), normalize(outcomes[k].suggestion.original))
    /\ outcomes[k].how = "unlocated"
    /\ ~outcomes[k].applied

\* --------------------------------------------------------- stale snapshot
\* the run in whose snapshot text the anchor of the current suggestion is
\* located: the run of the single-span hit, else the start run of the
\* multi-span location; 0 when there is none
locatedRun ==
  IF hit # 0 THEN hitRun
  ELSE IF latest.loc.startNodeIdx # 0
  THEN findParentRun(xmlDoc, textNodes[latest.loc.startNodeIdx].element)
  ELSE 0

\* run r was a child in the document as parsed and is no child now
removedEarlier(r) ==
  /\ r \in DOMAIN docPart
  /\ \E n \in DOMAIN docPart : childIndex(docPart[n].kids, r) # 0
  /\ \A n \in DOMAIN xmlDoc : childIndex(xmlDoc[n].kids, r) = 0

\* C24: a suggestion whose anchor is located, as its single run or as its
\* start run, in a run that an earlier suggestion of the pass has removed
\* from its paragraph is skipped: it counts as not applied, the tree stays
\* as it is and the revision counter does not move.
C24_RemovedRunSkipped ==
  [][(applying /\ locatedRun # 0 /\ removedEarlier(locatedRun)) =>
       /\ skippedUnchanged
       /\ latest.how = "noParagraph"]_vars

\* C24 witness: after an applied suggestion removed a run, a suggestion
\* that the multi-span scan located with that run as its start run was
\* skipped
C24_Witness ==
  /\ Len(outcomes) = 2
  /\ outcomes[1].how = "exact"
  /\ outcomes[2].how = "noParagraph"
  /\ outcomes[2].loc.startNodeIdx # 0
  /\ outcomes[2].loc.endNodeIdx > outcomes[2].loc.startNodeIdx
  /\ removedEarlier(findParentRun(xmlDoc, textNodes[outcomes[2].loc.startNodeIdx].element))
  /\ xmlDoc # docPart
  /\ changeId = 2

====
